---- MODULE Spec2Model ----
(***************************************************************************)
(* A model of the rich-text editor component (src/src/index.js): the       *)
(* adapter between the host bridge, the embedded Quill editor and the      *)
(* browser window.  Strings are sequences of one-character strings, the    *)
(* editor document is a Delta (a sequence of insert operations), and each  *)
(* handler of the module is one atomic action (the page is single          *)
(* threaded: a handler runs to completion, or until it throws).            *)
(***************************************************************************)
EXTENDS Integers, Sequences, FiniteSets, TLC

(***************************************************************************)
(* Bounds of the model.                                                    *)
(***************************************************************************)
\* longest text (without the trailing newline) the user may type up to
MaxDocLen == 1
\* most debounce timers of discarded editor instances pending at once
MaxOrphans == 1

\* content updates sent to the studio and not yet echoed back, at most
MaxEchoes == 2

(***************************************************************************)
(* Strings and JavaScript values.                                          *)
(***************************************************************************)
Letters ==
    {"a","b","c","d","e","f","g","h","i","j","k","l","m",
     "n","o","p","q","r","s","t","u","v","w","x","y","z",
     "A","B","C","D","E","F","G","H","I","J","K","L","M",
     "N","O","P","Q","R","S","T","U","V","W","X","Y","Z"}

WhiteSpace == {" ", "\n", "\t"}

Str(chars) == [kind |-> "string", chars |-> chars]
Obj(ops) == [kind |-> "object", ops |-> ops]
Num(n) == [kind |-> "number", num |-> n]
Undefined == [kind |-> "undefined"]

\* JavaScript truthiness of a payload (the test !text of updateText)
Truthy(v) ==
    CASE v.kind = "undefined" -> FALSE
      [] v.kind = "string" -> Len(v.chars) > 0
      [] v.kind = "number" -> v.num # 0
      [] v.kind = "boolean" -> v.bool
      [] OTHER -> TRUE

Bool(b) == [kind |-> "boolean", bool |-> b]

\* a variant of LooksLikeHTML: the expression without its optional slash
LooksLikeOpeningTag(s) ==
    \E i \in 1..Len(s) :
        /\ s[i] = "<"
        /\ i + 1 <= Len(s)
        /\ s[i + 1] \in Letters
        /\ \E j \in (i + 2)..Len(s) : s[j] = ">"

\* the regular expression /<\/?[a-z][\s\S]*>/i of updateText, as a test
LooksLikeHTML(s) ==
    \E i \in 1..Len(s) :
        /\ s[i] = "<"
        /\ LET k == IF i + 1 <= Len(s) /\ s[i + 1] = "/" THEN i + 2 ELSE i + 1
           IN  /\ k <= Len(s)
               /\ s[k] \in Letters
               /\ \E j \in (k + 1)..Len(s) : s[j] = ">"

\* String.prototype.trim
RECURSIVE TrimLeft(_)
TrimLeft(s) ==
    IF s # <<>> /\ Head(s) \in WhiteSpace THEN TrimLeft(Tail(s)) ELSE s

RECURSIVE TrimRight(_)
TrimRight(s) ==
    IF s # <<>> /\ s[Len(s)] \in WhiteSpace
    THEN TrimRight(SubSeq(s, 1, Len(s) - 1))
    ELSE s

Trim(s) == TrimRight(TrimLeft(s))

(***************************************************************************)
(* The editor library, as far as the component uses it.  A document is a   *)
(* sequence of insert operations; it always ends with a newline.           *)
(***************************************************************************)
Op(chars, bold) == [insert |-> chars, bold |-> bold]

NewLine == <<"\n">>

EmptyDoc == <<Op(NewLine, FALSE)>>

\* the ops of a document, adjacent inserts of the same format merged and
\* empty inserts dropped (Delta normalises on insert)
RECURSIVE Normalize(_)
Normalize(ops) ==
    IF ops = <<>> THEN <<>>
    ELSE IF Head(ops).insert = <<>> THEN Normalize(Tail(ops))
    ELSE LET rest == Normalize(Tail(ops))
         IN  IF rest # <<>> /\ Head(rest).bold = Head(ops).bold
             THEN <<Op(Head(ops).insert \o Head(rest).insert, Head(ops).bold)>>
                      \o Tail(rest)
             ELSE <<Head(ops)>> \o rest

\* quill.getText(): the inserts, concatenated
RECURSIVE GetText(_)
GetText(doc) ==
    IF doc = <<>> THEN <<>> ELSE Head(doc).insert \o GetText(Tail(doc))

\* a document always ends with a newline (Quill.setContents removes the
\* newline it had, if the new contents bring their own)
EndWithNewLine(ops) ==
    LET text == GetText(ops)
    IN  IF text # <<>> /\ text[Len(text)] = "\n"
        THEN Normalize(ops)
        ELSE Normalize(ops \o <<Op(NewLine, FALSE)>>)

\* the index of the first ">" of s at or after i, 0 if there is none
RECURSIVE FindClose(_, _)
FindClose(s, i) ==
    IF i > Len(s) THEN 0 ELSE IF s[i] = ">" THEN i ELSE FindClose(s, i + 1)

BoldOpen == {<<"b">>, <<"B">>, <<"s","t","r","o","n","g">>}
BoldClose == {<<"/","b">>, <<"/","B">>, <<"/","s","t","r","o","n","g">>}

\* clipboard.convert({html}): tags are consumed, <b> and <strong> format
\* the text they enclose, everything else is text
RECURSIVE ConvertHTML(_, _, _)
ConvertHTML(s, i, bold) ==
    IF i > Len(s) THEN <<>>
    ELSE LET j == IF s[i] = "<" THEN FindClose(s, i + 1) ELSE 0
         IN  IF j > 0
             THEN LET tag == SubSeq(s, i + 1, j - 1)
                      b == IF tag \in BoldOpen THEN TRUE
                           ELSE IF tag \in BoldClose THEN FALSE ELSE bold
                  IN  ConvertHTML(s, j + 1, b)
             ELSE <<Op(<<s[i]>>, bold)>> \o ConvertHTML(s, i + 1, bold)

\* the document quill.setText(text) leaves
DocOfText(chars) == EndWithNewLine(<<Op(chars, FALSE)>>)

\* the document clipboard.dangerouslyPasteHTML(html) leaves
DocOfHTML(chars) == EndWithNewLine(ConvertHTML(chars, 1, FALSE))

\* the document quill.setContents(delta) leaves: new Delta(x) has the ops
\* of x when x carries an array of ops, and no ops otherwise
DocOfDelta(v) == EndWithNewLine(IF v.kind = "object" THEN v.ops ELSE <<>>)

\* quill.getSemanticHTML(): one paragraph, bold runs in <strong>
RECURSIVE InlineHTML(_)
InlineHTML(ops) ==
    IF ops = <<>> THEN <<>>
    ELSE LET chars == SelectSeq(Head(ops).insert, LAMBDA c : c # "\n")
         IN  (IF Head(ops).bold /\ chars # <<>>
              THEN <<"<","s","t","r","o","n","g",">">> \o chars
                       \o <<"<","/","s","t","r","o","n","g",">">>
              ELSE chars) \o InlineHTML(Tail(ops))

GetSemanticHTML(doc) == <<"<","p",">">> \o InlineHTML(doc) \o <<"<","/","p",">">>

(***************************************************************************)
(* Properties: the configuration snapshot of the host.  A snapshot maps    *)
(* the keys it carries to values; a key it does not carry reads undefined. *)
(***************************************************************************)
NullProperties == [null |-> TRUE]

Props(map) == [null |-> FALSE, map |-> map]

\* properties[key] / properties?.key, for non-null properties
Get(p, key) == IF key \in DOMAIN p.map THEN p.map[key] ELSE Undefined

\* lodash isEqual on two property values
IsEqual(a, b) == a = b

mutableProperties == {"content", "readOnly"}

validationStateInit == [validated |-> FALSE, isEmpty |-> FALSE]

(***************************************************************************)
(* The state a handler works on, as one record: the module-level state of  *)
(* index.js (quill, properties, shouldForceFocus, validationState), the    *)
(* pending timers of the debounced callbacks, and what the running handler *)
(* has done so far: the messages it sent to the host (out), the calls it   *)
(* made on the editor (calls), and whether it threw (threw).               *)
(***************************************************************************)
NullQuill == [null |-> TRUE]

\* the range of the selection, as far as the component looks at it: none
\* (null) or some
NoRange == 0

SomeRange == 1

NoTimer == -1

HasFocus(q) == q.range # NoRange

\* an exception ends the handler: the steps that follow are skipped
Throw(m) == [m EXCEPT !.threw = TRUE]

Call(m, name) ==
    [m EXCEPT !.calls = Append(@, [call |-> name,
                                   enabled |-> IF m.quill.null THEN FALSE
                                               ELSE m.quill.enabled])]

\* PandaBridge.send(type, ...)
Send(m, msg) == [m EXCEPT !.out = Append(@, msg)]

getQueryable(m) ==
    [text |-> GetText(m.quill.doc),
     html |-> GetSemanticHTML(m.quill.doc),
     content |-> m.quill.doc,
     validation |-> m.validationState]

\* properties.content.ops = ...: true when the assignment throws a
\* TypeError (the module is strict code: content undefined or a primitive)
ContentAssignmentThrows(content) == content.kind # "object"

\* a variant of validate: without the assignment to properties.content.ops
validateWithoutAssignment(m) ==
    IF m.quill.null THEN Throw(m)
    ELSE LET text == Trim(GetText(m.quill.doc))
             m1 == [m EXCEPT !.validationState =
                        [validated |-> TRUE, isEmpty |-> Len(text) = 0]]
             queryable == getQueryable(m1)
             m3 == Send(m1, [type |-> "UPDATED", properties |-> FALSE,
                             queryable |-> queryable])
         IN  Send(m3, [type |-> "onValidated", queryable |-> queryable])

validate(m) ==
    IF m.quill.null THEN Throw(m)
    ELSE LET text == Trim(GetText(m.quill.doc))
             m1 == [m EXCEPT !.validationState =
                        [validated |-> TRUE, isEmpty |-> Len(text) = 0]]
             queryable == getQueryable(m1)
         IN  IF m1.properties.null THEN Throw(m1)
             ELSE IF ContentAssignmentThrows(Get(m1.properties, "content"))
             THEN Throw(m1)
             ELSE LET m2 == [m1 EXCEPT !.properties.map["content"] =
                                 Obj(queryable.content)]
                      m3 == Send(m2, [type |-> "UPDATED", properties |-> FALSE,
                                      queryable |-> queryable])
                  IN  Send(m3, [type |-> "onValidated", queryable |-> queryable])

\* a variant of RunTextChange: the studio listener sends the snapshot
\* without the content update
RECURSIVE RunTextChangeSnapshotOnly(_, _)
RunTextChangeSnapshotOnly(m, listeners) ==
    IF listeners = <<>> THEN m
    ELSE LET m1 ==
                 IF Head(listeners) = "studio"
                 THEN Send(m, [type |-> "UPDATED", properties |-> FALSE,
                               queryable |-> getQueryable(m)])
                 ELSE [m EXCEPT !.timers.cur = m.quill.wait]
         IN  RunTextChangeSnapshotOnly(m1, Tail(listeners))

\* the listeners of "text-change", run in the order they were registered
RECURSIVE RunTextChange(_, _)
RunTextChange(m, listeners) ==
    IF listeners = <<>> THEN m
    ELSE LET m1 ==
                 IF Head(listeners) = "studio"
                 THEN Send(m, [type |-> "UPDATED", properties |-> TRUE,
                               value |-> m.quill.doc,
                               queryable |-> getQueryable(m)])
                 ELSE \* the debounced callback: (re)start its timer
                      [m EXCEPT !.timers.cur = m.quill.wait]
         IN  RunTextChange(m1, Tail(listeners))

EmitTextChange(m) == RunTextChange(m, m.quill.textChange)

\* quill.enable(flag)
Enable(m, flag) ==
    IF m.threw THEN m
    ELSE IF m.quill.null THEN Throw(m)
    ELSE [Call(m, IF flag THEN "enable(true)" ELSE "enable(false)")
             EXCEPT !.quill.enabled = flag]

\* one of the three calls that replace the document; each of them emits
\* "text-change" (source api), whether the editor is enabled or not
SetDocument(m, name, doc) ==
    IF m.threw THEN m
    ELSE IF m.quill.null THEN Throw(m)
    ELSE EmitTextChange([Call(m, name) EXCEPT !.quill.doc = doc])

ApplyContent(m, text) ==
    IF text.kind = "string"
    THEN IF LooksLikeHTML(text.chars)
         THEN SetDocument(m, "dangerouslyPasteHTML", DocOfHTML(text.chars))
         ELSE SetDocument(m, "setText", DocOfText(text.chars))
    ELSE SetDocument(m, "setContents", DocOfDelta(text))

\* a variant of ShouldDisable: the test without quill.hasFocus()
ShouldDisableIgnoringFocus(m) ==
    ~ (~ m.properties.null /\ Truthy(Get(m.properties, "readOnly")))

ShouldDisable(m) ==
    /\ ~ (~ m.properties.null /\ Truthy(Get(m.properties, "readOnly")))
    /\ ~ HasFocus(m.quill)

\* a variant of updateText: without the return on a falsy text, which the
\* editor then takes as the empty document
updateTextUnguarded(m, text) ==
    IF m.threw THEN m
    ELSE IF m.quill.null THEN Throw(m)
    ELSE LET shouldDisable == ShouldDisable(m)
             m1 == IF shouldDisable THEN Enable(m, FALSE) ELSE m
             m2 == IF Truthy(text) THEN ApplyContent(m1, text)
                   ELSE SetDocument(m1, IF text.kind = "string" THEN "setText"
                                        ELSE "setContents", EmptyDoc)
         IN  IF shouldDisable THEN Enable(m2, TRUE) ELSE m2

updateText(m, text) ==
    IF m.threw \/ ~ Truthy(text) THEN m
    ELSE IF m.quill.null THEN Throw(m)
    ELSE LET shouldDisable == ShouldDisable(m)
             m1 == IF shouldDisable THEN Enable(m, FALSE) ELSE m
             m2 == ApplyContent(m1, text)
         IN  IF shouldDisable THEN Enable(m2, TRUE) ELSE m2

\* a variant of updateQuill: without quill.enable(!properties.readOnly)
updateQuillContentOnly(m) ==
    LET content == IF m.properties.null THEN Undefined
                   ELSE Get(m.properties, "content")
    IN  IF Truthy(content) THEN updateText(m, content) ELSE m

updateQuill(m) ==
    LET content == IF m.properties.null THEN Undefined
                   ELSE Get(m.properties, "content")
        m1 == IF Truthy(content) THEN updateText(m, content) ELSE m
    IN  IF m1.threw THEN m1
        ELSE IF m1.quill.null \/ m1.properties.null THEN Throw(m1)
        ELSE Enable(m1, ~ Truthy(Get(m1.properties, "readOnly")))

\* the flags of getToolbarOptions, in the order it tests them
ToolbarFlags ==
    <<"toolbarHeader", "toolbarStyle", "toolbarBlock", "toolbarMedia",
      "toolbarList", "toolbarScript", "toolbarIndent", "toolbarDirection",
      "toolbarColor", "toolbarFont", "toolbarAlign", "toolbarClean",
      "toolbarHistory">>

getToolbarOptions(p) ==
    SelectSeq(ToolbarFlags, LAMBDA flag : ~ p.null /\ Truthy(Get(p, flag)))

\* debounce(..., properties.debounceTime || 300)
DefaultWait == 300

\* the clock advances by half the default wait at most, and the time since
\* the last text change is tracked up to the default wait
TickMs == DefaultWait \div 2

MaxElapsed == DefaultWait

DebounceWait(p) ==
    IF Truthy(Get(p, "debounceTime")) THEN Get(p, "debounceTime").num
    ELSE DefaultWait

\* new Quill("#editor", options), with the listeners initQuill registers
NewQuill(m) ==
    LET p == m.properties
        on == ~ p.null
    IN  [null |-> FALSE,
         doc |-> EmptyDoc,
         enabled |-> TRUE,
         range |-> NoRange,
         toolbar |-> IF on /\ Truthy(Get(p, "toolbar"))
                     THEN <<"toolbar">> \o getToolbarOptions(p)
                     ELSE <<>>,
         placeholder |-> IF on /\ Truthy(Get(p, "placeholder"))
                         THEN Get(p, "placeholder") ELSE Undefined,
         textChange |-> (IF m.isStudio THEN <<"studio">> ELSE <<>>)
                        \o (IF on /\ Truthy(Get(p, "debounce"))
                            THEN <<"debounce">> ELSE <<>>),
         selectionChange |-> TRUE,
         wait |-> IF on /\ Truthy(Get(p, "debounce")) THEN DebounceWait(p)
                  ELSE 0]

\* the pending timers of discarded editors all run the same validate: they
\* are kept in the order of their expiry
InsertTimer(pending, t) ==
    SelectSeq(pending, LAMBDA u : u <= t) \o <<t>>
        \o SelectSeq(pending, LAMBDA u : u > t)

\* quill.off("text-change"); quill.off("selection-change"): the listeners
\* of the old instance are gone; the timer its debounced callback has
\* pending is not cancelled
Detach(m) ==
    IF m.quill.null THEN m
    ELSE [Call(Call(m, "off(text-change)"), "off(selection-change)")
             EXCEPT !.timers = [cur |-> NoTimer,
                                orphans |-> IF m.timers.cur = NoTimer
                                            THEN m.timers.orphans
                                            ELSE InsertTimer(m.timers.orphans,
                                                             m.timers.cur)]]

initQuill(m) ==
    LET m1 == Detach(m)
        m2 == [Call(m1, "new Quill") EXCEPT !.quill = NewQuill(m1)]
    IN  updateQuill(m2)

\* a variant of OnSelectionChange: the listener without its test of the ranges
OnSelectionChangeForcedOnly(m, range, oldRange) ==
    IF m.shouldForceFocus
    THEN [Send(m, [type |-> "onFocused", queryable |-> getQueryable(m)])
             EXCEPT !.shouldForceFocus = FALSE]
    ELSE m

\* the selection-change listener of initQuill
OnSelectionChange(m, range, oldRange) ==
    IF m.shouldForceFocus \/ (range # NoRange /\ oldRange = NoRange)
    THEN [Send(m, [type |-> "onFocused", queryable |-> getQueryable(m)])
             EXCEPT !.shouldForceFocus = FALSE]
    ELSE m

\* the editor moves its selection and tells its selection-change listeners
SetRange(m, range) ==
    LET m1 == [m EXCEPT !.quill.range = range]
    IN  IF ~ m.quill.selectionChange THEN m1
        ELSE OnSelectionChange(m1, range, m.quill.range)

\* a variant of DiffKeys: values compared by identity, so that a delivered
\* object differs from the one held
DiffKeysByIdentity(p, delivered) ==
    {key \in DOMAIN delivered :
        delivered[key].kind = "object" \/ Get(p, key) # delivered[key]}

\* the diffKeys of onUpdate: the delivered keys whose value differs
DiffKeys(p, delivered) ==
    {key \in DOMAIN delivered : ~ IsEqual(Get(p, key), delivered[key])}

onUpdate(m, delivered) ==
    IF m.properties.null /\ DOMAIN delivered # {} THEN Throw(m)
    ELSE LET diffKeys == IF m.properties.null THEN {}
                         ELSE DiffKeys(m.properties, delivered)
         IN  IF diffKeys = {} THEN m
             ELSE LET changesIsOnlyMutable == diffKeys \subseteq mutableProperties
                      m1 == [m EXCEPT !.properties = Props(delivered)]
                  IN  IF changesIsOnlyMutable THEN updateQuill(m1)
                      ELSE initQuill(m1)

focusText(m) ==
    IF m.quill.null THEN m
    ELSE LET m1 == IF HasFocus(m.quill) THEN Call(m, "focus")
                   ELSE SetRange(Call(m, "focus"), SomeRange)
         IN  IF m1.shouldForceFocus
             THEN [Send(m1, [type |-> "onFocused",
                             queryable |-> getQueryable(m1)])
                      EXCEPT !.shouldForceFocus = FALSE]
             ELSE m1

(***************************************************************************)
(* What the host and the user may send.                                    *)
(***************************************************************************)
Hi == <<"h", "i">>

BoldHi == <<"<", "b", ">", "h", "i", "<", "/", "b", ">">>

HostDelta == Obj(<<Op(<<"y", "o", "\n">>, FALSE)>>)

ContentValues == {Str(<<>>), Str(Hi), HostDelta}

\* payloads of setText and setContent
Payloads ==
    ContentValues \cup {Str(BoldHi), Str(<<"<", "b">>),
                        Str(<<"<", "/", "p", ">">>), Num(7)}

NoMap == [key \in {} |-> Undefined]

Merge(f, g) ==
    [key \in DOMAIN f \cup DOMAIN g |->
        IF key \in DOMAIN f THEN f[key] ELSE g[key]]

ToolbarOn ==
    "toolbar" :> Bool(TRUE) @@ "toolbarStyle" :> Bool(TRUE)
        @@ "toolbarHistory" :> Bool(TRUE) @@ "placeholder" :> Str(<<"x">>)

ToolbarOff == "toolbar" :> Bool(FALSE)

DebounceOn == "debounce" :> Bool(TRUE)

DebounceOff == "debounce" :> Bool(FALSE)

DebounceFast == "debounce" :> Bool(TRUE) @@ "debounceTime" :> Num(TickMs)

Maps(contents, others) ==
    {Merge(c, o) : c \in {"content" :> v : v \in contents}, o \in others}
        \cup others

\* The hosts of the model.  A host is in studio mode or not, delivers its
\* snapshots with onLoad and onUpdate and its payloads with setText and
\* setContent: one host edits the content and the read-only flag, one
\* switches the toolbar and the placeholder, one switches the debounced
\* validation, one is the studio.
Host(studio, snaps, loads) ==
    [isStudio |-> studio, snapshots |-> snaps, payloads |-> loads]

Hosts ==
    {Host(FALSE, Maps(ContentValues, {NoMap, "readOnly" :> Bool(TRUE),
                                      "readOnly" :> Bool(FALSE)}),
          Payloads),
     Host(FALSE, Maps({Str(Hi)}, {NoMap, ToolbarOn, ToolbarOff}),
          {Str(<<>>), Str(Hi)}),
     Host(FALSE, {DebounceOn} \cup {Merge("content" :> HostDelta, o) :
                                       o \in {DebounceOn, DebounceFast,
                                              DebounceOff}},
          {}),
     Host(TRUE, Maps({Str(Hi), HostDelta}, {NoMap}), {Str(Hi), Str(BoldHi)})}

TypedChars == {" "}

\* the arguments of the bridge events: NoArg when the event carries none
NoArg == [given |-> FALSE, map |-> NoMap]

Arg(map) == [given |-> TRUE, map |-> map]

\* const { text } = props || {}
Field(arg, name) ==
    IF arg.given /\ name \in DOMAIN arg.map THEN arg.map[name] ELSE Undefined

SetArgs(name, loads) ==
    {NoArg, Arg(NoMap)} \cup {Arg(name :> v) : v \in loads}

(***************************************************************************)
(* The user's edits, on the document.                                      *)
(***************************************************************************)
\* the characters of the document before its final newline
Body(doc) == LET text == GetText(doc) IN SubSeq(text, 1, Len(text) - 1)

\* the ops of the document without its final newline
BodyOps(doc) ==
    LET last == doc[Len(doc)]
    IN  Normalize(SubSeq(doc, 1, Len(doc) - 1)
            \o <<Op(SubSeq(last.insert, 1, Len(last.insert) - 1), last.bold)>>)

\* the user types c at the end of the text
TypeChar(doc, c) == EndWithNewLine(BodyOps(doc) \o <<Op(<<c>>, FALSE)>>)

(***************************************************************************)
(* State.                                                                  *)
(***************************************************************************)
VARIABLES
    quill,             \* the editor instance, NullQuill before initQuill
    properties,        \* the snapshot of the host, NullProperties before onLoad
    shouldForceFocus,  \* a window blur is pending
    validationState,   \* [validated, isEmpty]
    timers,            \* the timers of the debounced callbacks, ms left
    isStudio,          \* PandaBridge.isStudio
    readyState,        \* document.readyState
    domListener,       \* initQuill waits for DOMContentLoaded
    snapshots,         \* the snapshots the host of this run delivers
    payloads,          \* the payloads it sends with setText and setContent
    handler,           \* the handler that ran last
    out,               \* the messages it sent to the host
    calls,             \* the calls it made on the editor
    threw,             \* it ended with an exception
    sinceChange,       \* ms since the text change that armed the timer of
                       \* the live editor, MaxElapsed when none is pending
    focused,           \* "idle" until the first window blur, then "blurred"
                       \* until onFocused is sent, then "sent"
    echoes             \* a studio that echoes (on): the content updates it
                       \* has still to send back (queue) and the document of
                       \* the last edit of the user (last, <<>> before it)

vars ==
    <<quill, properties, shouldForceFocus, validationState, timers, isStudio,
      readyState, domListener, snapshots, payloads, handler, out, calls,
      threw, sinceChange, focused, echoes>>

\* the state a handler starts from
Start ==
    [quill |-> quill, properties |-> properties,
     shouldForceFocus |-> shouldForceFocus,
     validationState |-> validationState, timers |-> timers,
     isStudio |-> isStudio, out |-> <<>>, calls |-> <<>>, threw |-> FALSE]

Min(a, b) == IF a < b THEN a ELSE b

Count(msgs, type) == Len(SelectSeq(msgs, LAMBDA msg : msg.type = type))

TextChanged(m) ==
    \E i \in 1..Len(m.calls) :
        m.calls[i].call \in {"setText", "setContents", "dangerouslyPasteHTML",
                             "user edit"}

\* the values of the content updates among the messages msgs
ContentUpdates(msgs) ==
    LET sent == SelectSeq(msgs, LAMBDA msg : msg.type = "UPDATED"
                                             /\ msg.properties)
    IN  [i \in 1..Len(sent) |-> sent[i].value]

NoEchoes == [on |-> FALSE, queue |-> <<>>, last |-> <<>>]

\* what the studio has to echo after a handler that ended in state m, the
\* studio having had e to echo before it
Echoed(e, m) ==
    IF ~ e.on THEN e
    ELSE [e EXCEPT !.queue = @ \o ContentUpdates(m.out),
                   !.last = IF \E i \in 1..Len(m.calls) :
                                    m.calls[i].call = "user edit"
                            THEN m.quill.doc ELSE @]

\* the handler name ends in the state it computed
CommitFrom(name, computed, e) ==
    \E m \in {computed} :
        /\ Len(m.timers.orphans) <= MaxOrphans
        /\ Len(Echoed(e, m).queue) <= MaxEchoes
        /\ echoes' = Echoed(e, m)
        /\ quill' = m.quill
        /\ properties' = m.properties
        /\ shouldForceFocus' = m.shouldForceFocus
        /\ validationState' = m.validationState
        /\ timers' = m.timers
        /\ handler' = name
        /\ out' = m.out
        /\ calls' = m.calls
        /\ threw' = m.threw
        /\ sinceChange' = IF m.timers.cur = NoTimer
                          THEN MaxElapsed
                          ELSE IF TextChanged(m) THEN 0 ELSE sinceChange
        /\ focused' = IF focused = "blurred" /\ Count(m.out, "onFocused") > 0
                      THEN "sent" ELSE focused
        /\ UNCHANGED <<isStudio, snapshots, payloads>>

Commit(name, m) == CommitFrom(name, m, echoes)

(***************************************************************************)
(* The actions: one for each handler of index.js and each event of its     *)
(* environment.                                                            *)
(***************************************************************************)
Init ==
    /\ quill = NullQuill
    /\ properties = NullProperties
    /\ shouldForceFocus = FALSE
    /\ validationState = validationStateInit
    /\ timers = [cur |-> NoTimer, orphans |-> <<>>]
    /\ \E host \in Hosts :
           /\ isStudio = host.isStudio
           /\ snapshots = host.snapshots
           /\ payloads = host.payloads
    /\ readyState = "loading"
    /\ domListener = FALSE
    /\ handler = "none"
    /\ out = <<>>
    /\ calls = <<>>
    /\ threw = FALSE
    /\ sinceChange = MaxElapsed
    /\ focused = "idle"
    /\ echoes = NoEchoes

\* PandaBridge.onLoad: the host delivers the initial properties, once
OnLoad(delivered) ==
    /\ properties.null
    /\ LET m == [Start EXCEPT !.properties = Props(delivered)]
       IN  IF readyState = "complete"
           THEN Commit("onLoad", initQuill(m))
                /\ UNCHANGED domListener
           ELSE Commit("onLoad", m) /\ domListener' = TRUE
    /\ readyState' = IF readyState = "interactive" THEN "complete"
                     ELSE readyState

\* the document is parsed: the listener onLoad registered runs initQuill.
\* Once onLoad has run nothing reads the ready state any more, and the load
\* event that follows is folded into this step.
DOMContentLoaded ==
    /\ readyState = "loading"
    /\ readyState' = IF properties.null THEN "interactive" ELSE "complete"
    /\ Commit("DOMContentLoaded",
              IF domListener THEN initQuill(Start) ELSE Start)
    /\ UNCHANGED domListener

\* the page and its resources are loaded
WindowLoad ==
    /\ readyState = "interactive"
    /\ readyState' = "complete"
    /\ Commit("load", Start)
    /\ UNCHANGED domListener

OnUpdate(delivered) ==
    /\ Commit("onUpdate", onUpdate(Start, delivered))
    /\ UNCHANGED <<readyState, domListener>>

Validate ==
    /\ Commit("validate", validate(Start))
    /\ UNCHANGED <<readyState, domListener>>

SetText(a) ==
    /\ Commit("setText",
              IF quill.null THEN Start
              ELSE updateText(Start, Field(a, "text")))
    /\ UNCHANGED <<readyState, domListener>>

SetContent(a) ==
    /\ Commit("setContent",
              IF quill.null THEN Start
              ELSE updateText(Start, Field(a, "content")))
    /\ UNCHANGED <<readyState, domListener>>

ClearText ==
    /\ Commit("clearText",
              IF quill.null THEN Start ELSE updateText(Start, Str(<<>>)))
    /\ UNCHANGED <<readyState, domListener>>

FocusText ==
    /\ Commit("focusText", focusText(Start))
    /\ UNCHANGED <<readyState, domListener>>

\* window "blur"
WindowBlur ==
    /\ shouldForceFocus' = TRUE
    /\ handler' = "blur"
    /\ out' = <<>>
    /\ calls' = <<>>
    /\ threw' = FALSE
    /\ focused' = "blurred"
    /\ UNCHANGED <<quill, properties, validationState, timers, isStudio,
                   readyState, domListener, snapshots, payloads, sinceChange,
                   echoes>>

\* the user moves the selection of the editor, into it, within it or out of
\* it (NoRange); the editor reports the change of its range
SelectionChange(range) ==
    /\ ~ quill.null
    /\ range # NoRange \/ quill.range # NoRange
    /\ Commit("selection-change", SetRange(Start, range))
    /\ UNCHANGED <<readyState, domListener>>

\* the user edits the document of the focused, enabled editor
UserEdit(doc) ==
    /\ ~ quill.null
    /\ quill.enabled
    /\ HasFocus(quill)
    /\ doc # quill.doc
    /\ Commit("text-change", SetDocument(Start, "user edit", doc))
    /\ UNCHANGED <<readyState, domListener>>

UserType ==
    \E c \in TypedChars :
        /\ ~ quill.null
        /\ Len(Body(quill.doc)) < MaxDocLen
        /\ UserEdit(TypeChar(quill.doc, c))

\* the user selects everything and deletes it
UserClear == UserEdit(EmptyDoc)

\* the timer of the debounced callback of the live editor expires
DebounceFire ==
    /\ timers.cur = 0
    /\ Commit("debounce",
              validate([Start EXCEPT !.timers.cur = NoTimer]))
    /\ UNCHANGED <<readyState, domListener>>

RemoveAt(seq, i) == SubSeq(seq, 1, i - 1) \o SubSeq(seq, i + 1, Len(seq))

\* the timer of the debounced callback of a discarded editor expires
OrphanFire ==
    \E i \in 1..Len(timers.orphans) :
        /\ timers.orphans[i] = 0
        /\ Commit("orphan",
                  validate([Start EXCEPT
                               !.timers.orphans = RemoveAt(@, i)]))
        /\ UNCHANGED <<readyState, domListener>>

Pending == {timers.cur} \cup {timers.orphans[i] : i \in 1..Len(timers.orphans)}

\* time passes, up to the next expiry and at most TickMs at once
Tick ==
    /\ 0 \notin Pending
    /\ LET left == {t \in Pending : t # NoTimer}
           d == IF \E t \in left : t < TickMs
                THEN CHOOSE t \in left : \A u \in left : t <= u
                ELSE TickMs
       IN  /\ timers' = [cur |-> IF timers.cur = NoTimer THEN NoTimer
                                 ELSE timers.cur - d,
                         orphans |-> [i \in 1..Len(timers.orphans) |->
                                         timers.orphans[i] - d]]
           /\ sinceChange' = IF timers.cur = NoTimer THEN MaxElapsed
                             ELSE Min(MaxElapsed, sinceChange + d)
    /\ handler' = "tick"
    /\ out' = <<>>
    /\ calls' = <<>>
    /\ threw' = FALSE
    /\ UNCHANGED <<quill, properties, shouldForceFocus, validationState,
                   isStudio, readyState, domListener, snapshots, payloads,
                   focused, echoes>>

Next ==
    \/ \E delivered \in snapshots : OnLoad(delivered)
    \/ DOMContentLoaded
    \/ WindowLoad
    \/ \E delivered \in snapshots : OnUpdate(delivered)
    \/ Validate
    \/ \E a \in SetArgs("text", payloads) : SetText(a)
    \/ \E a \in SetArgs("content", payloads) : SetContent(a)
    \/ ClearText
    \/ FocusText
    \/ WindowBlur
    \/ \E range \in {NoRange, SomeRange} : SelectionChange(range)
    \/ UserType
    \/ UserClear
    \/ DebounceFire
    \/ OrphanFire
    \/ Tick

Spec == Init /\ [][Next]_vars

(***************************************************************************)
(* The studio that echoes: it sends every content update it receives from  *)
(* the text-change listener back with onUpdate, in the order received.     *)
(***************************************************************************)
EchoContents == {HostDelta, Str(Hi)}

EchoInit ==
    /\ quill = NullQuill
    /\ properties = NullProperties
    /\ shouldForceFocus = FALSE
    /\ validationState = validationStateInit
    /\ timers = [cur |-> NoTimer, orphans |-> <<>>]
    /\ isStudio = TRUE
    /\ snapshots = {"content" :> v : v \in EchoContents}
    /\ payloads = {}
    /\ readyState = "loading"
    /\ domListener = FALSE
    /\ handler = "none"
    /\ out = <<>>
    /\ calls = <<>>
    /\ threw = FALSE
    /\ sinceChange = MaxElapsed
    /\ focused = "idle"
    /\ echoes = [NoEchoes EXCEPT !.on = TRUE]

\* the snapshot of an echo: the content the component sent
EchoOf(value) == "content" :> Obj(value)

\* the oldest echo arrives: PandaBridge.onUpdate with that content
EchoArrives ==
    /\ echoes.on
    /\ echoes.queue # <<>>
    /\ CommitFrom("onUpdate",
                  onUpdate(Start, EchoOf(Head(echoes.queue))),
                  [echoes EXCEPT !.queue = Tail(@)])
    /\ UNCHANGED <<readyState, domListener>>

EchoNext ==
    \/ \E delivered \in snapshots : OnLoad(delivered)
    \/ DOMContentLoaded
    \/ WindowLoad
    \/ Validate
    \/ \E range \in {NoRange, SomeRange} : SelectionChange(range)
    \/ UserType
    \/ UserClear
    \/ EchoArrives

\* the bridge delivers the messages of the host: an echo that is due arrives
EchoSpec == EchoInit /\ [][EchoNext]_vars /\ WF_vars(EchoArrives)

(***************************************************************************)
(* Properties of the component.                                            *)
(***************************************************************************)
\* the keys whose value differs between the properties p and a snapshot
ChangedKeys(p, delivered) ==
    {key \in DOMAIN p.map \cup DOMAIN delivered :
        Get(p, key) # Get(Props(delivered), key)}

\* the document that shows a content value
ContentDoc(content) ==
    CASE content.kind = "string" -> <<Op(content.chars \o NewLine, FALSE)>>
      [] content.kind = "object" -> content.ops
      [] OTHER -> EmptyDoc

Called(cs, name) == \E i \in 1..Len(cs) : cs[i].call = name

\* the calls of cs that apply content to the editor
Applied(cs) ==
    SelectSeq(cs, LAMBDA c : c.call \in {"setText", "setContents",
                                         "dangerouslyPasteHTML"})

Reinitialized(cs) ==
    /\ Called(cs, "off(text-change)")
    /\ Called(cs, "off(selection-change)")
    /\ Called(cs, "new Quill")

\* the snapshot of the editor in the current state
Queryable == getQueryable([quill |-> quill, validationState |-> validationState])

\* C1: an onUpdate whose changed keys are some of content and readOnly keeps
\* the editor instance and leaves the delivered content as the document, for
\* every content value, the empty string and an absent content included
C1_MutableUpdateShowsContent ==
    [][handler' = "onUpdate" /\ ~ quill.null /\ ~ properties.null =>
          \A d \in snapshots :
              /\ ChangedKeys(properties, d) # {}
              /\ ChangedKeys(properties, d) \subseteq {"content", "readOnly"}
              /\ OnUpdate(d)
              => /\ ~ Called(calls', "new Quill")
                 /\ ~ Called(calls', "off(text-change)")
                 /\ quill'.doc = ContentDoc(Get(Props(d), "content"))]_vars

\* C2: an onUpdate that touches a key other than content and readOnly (its
\* value changed, added or removed) detaches the listeners of the old
\* editor and builds a new one from the new properties
C2_StructuralUpdateReinitializes ==
    [][handler' = "onUpdate" /\ ~ quill.null /\ ~ properties.null =>
          \A d \in snapshots :
              /\ ~ (ChangedKeys(properties, d) \subseteq {"content", "readOnly"})
              /\ OnUpdate(d)
              => /\ Reinitialized(calls')
                 /\ properties' = Props(d)]_vars

\* C3: a request that sets the content to the empty string (here clearText),
\* followed by validate, leaves validationState.isEmpty true
C3_EmptyThenValidate ==
    [][handler = "clearText" /\ ~ quill.null /\ handler' = "validate"
          => validationState'.isEmpty]_vars

\* C4: every validate, asked by the host or fired by the debounce timer,
\* marks the validation, computes isEmpty from the trimmed text and sends
\* UPDATED and then onValidated, both with the snapshot
C4_ValidateEmits ==
    handler \in {"validate", "debounce"} /\ ~ quill.null =>
        /\ validationState.validated
        /\ validationState.isEmpty = (Len(Trim(GetText(quill.doc))) = 0)
        /\ out = <<[type |-> "UPDATED", properties |-> FALSE,
                    queryable |-> Queryable],
                   [type |-> "onValidated", queryable |-> Queryable]>>

\* C5: the timer that ends a burst of text changes emits the one validation
\* of the burst, once the debounce time has passed since the last change
C5_OneValidationPerBurst ==
    handler = "debounce" =>
        /\ Count(out, "onValidated") = 1
        /\ sinceChange >= quill.wait

\* C6: a selection-change from no range to some range emits exactly one
\* onFocused with the current snapshot; any other selection-change emits
\* none unless a window blur is pending
C6_FocusOnTransition ==
    [][handler' \in {"selection-change", "focusText"} /\ ~ quill.null =>
          LET transition == quill.range = NoRange /\ quill'.range # NoRange
              q == getQueryable([quill |-> quill',
                                 validationState |-> validationState'])
          IN  /\ transition => out' = <<[type |-> "onFocused", queryable |-> q]>>
              /\ handler' = "selection-change" /\ ~ transition
                     /\ ~ shouldForceFocus => out' = <<>>]_vars

C6_Witness ==
    /\ handler = "selection-change"
    /\ focused = "idle"
    /\ quill.range = SomeRange
    /\ out = <<[type |-> "onFocused", queryable |-> Queryable]>>

\* C7: between a window blur and the next one at most one onFocused is
\* emitted, by the selection-change listener (a change to no range that the
\* blur causes included) and by focusText together
C7_OneFocusPerBlur ==
    [][focused = "sent" /\ handler' # "blur"
          => Count(out', "onFocused") = 0]_vars

\* a string with tag-like markup: a "<", then a letter or a slash and a
\* letter, and a ">" further on
TagLike(s) ==
    \E i, j \in 1..Len(s) :
        /\ i < j
        /\ s[i] = "<"
        /\ s[j] = ">"
        /\ \/ i + 1 < j /\ s[i + 1] \in Letters
           \/ i + 2 < j /\ s[i + 1] = "/" /\ s[i + 2] \in Letters

ExpectedRoute(v) ==
    IF v.kind # "string" THEN "setContents"
    ELSE IF TagLike(v.chars) THEN "dangerouslyPasteHTML" ELSE "setText"

\* C8: updateText applies a non-empty payload through exactly one route:
\* HTML paste for a string with tag-like markup, setText for any other
\* string, setContents for a payload that is no string
C8_OneRoute ==
    [][/\ handler' = "setText" /\ ~ quill.null =>
             \A a \in SetArgs("text", payloads) :
                 \/ ~ Truthy(Field(a, "text"))
                 \/ /\ Len(Applied(calls')) = 1
                    /\ Applied(calls')[1].call = ExpectedRoute(Field(a, "text"))
                 \/ ~ SetText(a)
       /\ handler' = "setContent" /\ ~ quill.null =>
             \A a \in SetArgs("content", payloads) :
                 \/ ~ Truthy(Field(a, "content"))
                 \/ /\ Len(Applied(calls')) = 1
                    /\ Applied(calls')[1].call =
                           ExpectedRoute(Field(a, "content"))
                 \/ ~ SetContent(a)]_vars

C8_Witness ==
    /\ handler = "setText"
    /\ Len(Applied(calls)) = 1
    /\ Applied(calls)[1].call = "dangerouslyPasteHTML"
    /\ GetText(quill.doc) = Hi \o NewLine

\* C9, as claimed: while updateText applies content the editor is disabled
\* exactly when it is not focused and readOnly is falsy; it is enabled again
\* afterwards in that case and as it was before in the others
C9_DisabledExactlyWhen ==
    [][handler' \in {"setText", "setContent"} /\ ~ quill.null
          /\ Applied(calls') # <<>> =>
          LET unfocused == /\ quill.range = NoRange
                           /\ ~ Truthy(Get(properties, "readOnly"))
              during == Applied(calls')[1].enabled
          IN  /\ ~ during <=> unfocused
              /\ unfocused => quill'.enabled
              /\ ~ unfocused => quill'.enabled = quill.enabled]_vars

\* C9, amended: while updateText applies content the editor is disabled if
\* it is not focused and readOnly is falsy, and enabled again afterwards; in
\* the other cases it is, during and after, as it was before the call
C9_DisabledWhileApplying ==
    [][handler' \in {"setText", "setContent"} /\ ~ quill.null
          /\ Applied(calls') # <<>> =>
          LET unfocused == /\ quill.range = NoRange
                           /\ ~ Truthy(Get(properties, "readOnly"))
              during == Applied(calls')[1].enabled
          IN  /\ unfocused => ~ during /\ quill'.enabled
              /\ ~ unfocused => /\ during = quill.enabled
                                /\ quill'.enabled = quill.enabled]_vars

C9_Witness ==
    /\ handler = "setText"
    /\ Len(calls) = 3
    /\ calls[1].call = "enable(false)"
    /\ ~ Applied(calls)[1].enabled
    /\ calls[3].call = "enable(true)"
    /\ quill.enabled

\* C10: an onUpdate whose delivered properties have no key whose value
\* differs from the current properties changes nothing and sends nothing
C10_NoDiffNoOp ==
    [][handler' = "onUpdate" /\ ~ properties.null =>
          \A d \in snapshots :
              /\ \A key \in DOMAIN d : Get(properties, key) = d[key]
              /\ OnUpdate(d)
              => /\ properties' = properties
                 /\ quill' = quill
                 /\ validationState' = validationState
                 /\ shouldForceFocus' = shouldForceFocus
                 /\ timers' = timers
                 /\ out' = <<>>
                 /\ calls' = <<>>
                 /\ ~ threw']_vars

C10_Witness ==
    /\ handler = "onUpdate"
    /\ ~ properties.null
    /\ ~ quill.null
    /\ properties.map \in snapshots
    /\ calls = <<>>
    /\ out = <<>>
    /\ ~ threw

\* C11: a setText or setContent whose argument is absent, or whose text or
\* content field is absent, leaves the document, the enabled state, the
\* properties and validationState as they are, sends nothing and raises no
\* error
C11_AbsentIsNoOp ==
    [][/\ handler' = "setText" =>
             \A a \in {NoArg, Arg(NoMap)} :
                 SetText(a) => /\ quill' = quill
                               /\ properties' = properties
                               /\ validationState' = validationState
                               /\ out' = <<>>
                               /\ calls' = <<>>
                               /\ ~ threw'
       /\ handler' = "setContent" =>
             \A a \in {NoArg, Arg(NoMap)} :
                 SetContent(a) => /\ quill' = quill
                                  /\ properties' = properties
                                  /\ validationState' = validationState
                                  /\ out' = <<>>
                                  /\ calls' = <<>>
                                  /\ ~ threw']_vars

\* a host without payloads sends setText without a text only
C11_Witness ==
    /\ handler = "setText"
    /\ payloads = {}
    /\ ~ quill.null
    /\ quill.doc = HostDelta.ops
    /\ calls = <<>>
    /\ out = <<>>
    /\ ~ threw

\* C12: after every onUpdate the properties are exactly the snapshot that
\* update delivered
C12_PropertiesAreDelivered ==
    [][handler' = "onUpdate" /\ ~ properties.null =>
          \A d \in snapshots : OnUpdate(d) => properties' = Props(d)]_vars

\* C13: in the studio every text-change of the editor sends exactly one
\* UPDATED with the content property, whose value is the document at that
\* moment; outside the studio a text-change sends no UPDATED, which only a
\* validation sends
C13_StudioTextChange ==
    LET changes == SelectSeq(calls, LAMBDA c :
                       c.call \in {"setText", "setContents",
                                   "dangerouslyPasteHTML", "user edit"})
        updated == SelectSeq(out, LAMBDA msg : msg.type = "UPDATED")
        content == SelectSeq(updated, LAMBDA msg : msg.properties)
    IN  /\ isStudio => /\ Len(content) = Len(changes)
                       /\ \A i \in 1..Len(content) :
                              /\ content[i].value = quill.doc
                              /\ content[i].queryable = Queryable
        /\ ~ isStudio => content = <<>>
        /\ Len(updated) > Len(content)
               => handler \in {"validate", "debounce", "orphan"}

C13_Witness ==
    /\ isStudio
    /\ handler = "text-change"
    /\ Len(out) = 1
    /\ out[1].type = "UPDATED"
    /\ out[1].properties
    /\ out[1].value = quill.doc
    /\ quill.doc # HostDelta.ops

\* C14: after a validate that completes with a structured content,
\* properties.content.ops is the document of the editor, and an onUpdate
\* that then delivers a content equal to that document changes nothing and
\* does not apply the content again
C14_ValidatedContentIsCurrent ==
    [][/\ handler' \in {"validate", "debounce"} /\ ~ threw'
             => Get(properties', "content") = Obj(quill'.doc)
       /\ handler = "validate" /\ ~ threw /\ echoes.queue # <<>>
             /\ Head(echoes.queue) = quill.doc /\ EchoArrives
             => /\ calls' = <<>>
                /\ out' = <<>>
                /\ quill' = quill
                /\ properties' = properties]_vars

\* the user has edited, validate has run, and the echo of the edit has been
\* dropped
C14_Witness ==
    /\ handler = "onUpdate"
    /\ ~ quill.null
    /\ validationState.validated
    /\ echoes.last = quill.doc
    /\ echoes.queue = <<>>
    /\ Get(properties, "content") = Obj(quill.doc)
    /\ calls = <<>>

\* C15: in a studio that echoes every content update, once the user has
\* stopped editing the exchange comes to rest: nothing is left to echo and
\* the document is the last edit of the user
C15_EchoesQuiesce ==
    <>[](handler # "text-change")
        => <>[](/\ echoes.queue = <<>>
                /\ quill.null \/ echoes.last = <<>> \/ quill.doc = echoes.last)

\* C16: no handler uses the editor or the properties before they exist,
\* whatever the order of the messages of the host relative to onLoad and to
\* the deferred initQuill: no handler ends with a TypeError while quill or
\* properties is null
C16_NoNullDereference ==
    ~ (threw /\ (quill.null \/ properties.null))

\* C17: once onLoad has delivered the properties and the document has gone
\* through its ready states, the editor exists
C17_EditorCreated ==
    ~ properties.null /\ readyState = "complete" => ~ quill.null

\* C18: a validation is emitted for a validate of the host or for a debounce
\* timer of the current editor only: a timer armed on an editor that was
\* replaced emits none
C18_NoValidationFromOldTimer ==
    handler = "orphan" => Count(out, "onValidated") = 0

\* C19: an onUpdate whose only changed key is readOnly leaves the document
\* as it is, edits of the user included
C19_ReadOnlyKeepsDocument ==
    [][handler' = "onUpdate" /\ ~ quill.null /\ ~ properties.null =>
          \A d \in snapshots :
              ChangedKeys(properties, d) = {"readOnly"} /\ OnUpdate(d)
                  => quill'.doc = quill.doc]_vars

\* C20: whenever the editor exists and no handler is running, it is enabled
\* if and only if properties.readOnly is falsy
C20_EnabledIffNotReadOnly ==
    ~ quill.null =>
        /\ ~ properties.null
        /\ quill.enabled <=> ~ Truthy(Get(properties, "readOnly"))

\* a read-only editor, still disabled after setText has replaced its document
C20_Witness ==
    /\ handler = "setText"
    /\ ~ quill.null
    /\ Truthy(Get(properties, "readOnly"))
    /\ ~ quill.enabled
    /\ Len(calls) = 1
    /\ calls[1].call = "setText"

====
